---- MODULE Spec2Model ----
(***************************************************************************)
(* Model of scripts/build-recipes-index.mjs: the recipe index builder.     *)
(*                                                                         *)
(* Strings are sequences of one-character strings, so that the string      *)
(* operations of the script (toLowerCase, endsWith, includes, split,       *)
(* replace, the regular expressions) are computed character by character.  *)
(* JSON values are tagged records: [t |-> "undefined"], [t |-> "null"],    *)
(* [t |-> "string", v |-> chars], [t |-> "number", v |-> n],               *)
(* [t |-> "array", v |-> elements], [t |-> "object", v |-> members] where  *)
(* members is the sequence of [k |-> key, val |-> value] in key order.     *)
(***************************************************************************)
EXTENDS Integers, Sequences, FiniteSets, TLC

VARIABLES
  pagesBase,    \* PAGES_BASE, fixed for the life of the process
  dir,          \* listing of manifests/ as fs.readdir returns it
  disk,         \* content of every file of manifests/
  recipesJson,  \* content of recipes.json in the working directory
  pc,           \* position of main() / the catch handler
  files,        \* main: the filtered, sorted file list
  out,          \* main: the accumulating output sequence
  reads,        \* files passed to fs.readFile by the current run
  writes,       \* calls of fs.writeFile by the current run
  stdout,       \* count printed by the summary line, or NoLine
  err,          \* the error main rejected with, or NoError
  stderr,       \* the error console.error has printed, or NoError
  exitCode,     \* exit code of the process, or Running
  run,          \* number of the current run of the builder
  written,      \* what each earlier or current run wrote to recipes.json
  fnIn,         \* inputs of one loop-body evaluation (file, manifest)
  fnOut         \* the entry it built, or Pending / Thrown

vars == <<pagesBase, dir, disk, recipesJson, pc, files, out, reads, writes,
          stdout, err, stderr, exitCode, run, written, fnIn, fnOut>>

-----------------------------------------------------------------------------
(* Characters and strings *)

Upper == <<"A","B","C","D","E","F","G","H","I","J","K","L","M",
           "N","O","P","Q","R","S","T","U","V","W","X","Y","Z">>
Lower == <<"a","b","c","d","e","f","g","h","i","j","k","l","m",
           "n","o","p","q","r","s","t","u","v","w","x","y","z">>
Digits == <<"0","1","2","3","4","5","6","7","8","9">>

LowerChar(c) ==
  IF \E i \in 1..26 : Upper[i] = c
    THEN Lower[CHOOSE i \in 1..26 : Upper[i] = c]
    ELSE c

ToLowerCase(s) == [i \in 1..Len(s) |-> LowerChar(s[i])]

IsDigit(c) == \E i \in 1..10 : Digits[i] = c

DigitVal(c) == (CHOOSE i \in 1..10 : Digits[i] = c) - 1

StartsWith(s, p) == Len(p) <= Len(s) /\ SubSeq(s, 1, Len(p)) = p

EndsWith(s, p) ==
  Len(p) <= Len(s) /\ SubSeq(s, Len(s) - Len(p) + 1, Len(s)) = p

Includes(s, p) ==
  \E i \in 1..(Len(s) - Len(p) + 1) : SubSeq(s, i, i + Len(p) - 1) = p

DotJson == <<".", "j", "s", "o", "n">>
DataDir == <<"/", "d", "a", "t", "a", "/">>
RecipeDash == <<"r", "e", "c", "i", "p", "e", "-">>
HttpScheme == <<"h", "t", "t", "p", ":", "/", "/">>
HttpsScheme == <<"h", "t", "t", "p", "s", ":", "/", "/">>

\* s.replace(/\.json$/i, "")
StripJson(s) ==
  IF EndsWith(ToLowerCase(s), DotJson) THEN SubSeq(s, 1, Len(s) - 5) ELSE s

\* s.replace(/\/$/, "")
StripTrailingSlash(s) ==
  IF Len(s) > 0 /\ s[Len(s)] = "/" THEN SubSeq(s, 1, Len(s) - 1) ELSE s

\* s.replace(/^\//, "")
StripLeadingSlash(s) ==
  IF Len(s) > 0 /\ s[1] = "/" THEN SubSeq(s, 2, Len(s)) ELSE s

\* /^https?:\/\//i.test(s)
IsAbsoluteHttp(s) ==
  \/ StartsWith(ToLowerCase(s), HttpScheme)
  \/ StartsWith(ToLowerCase(s), HttpsScheme)

\* s.split("/").pop(): what follows the last "/", the whole of s without one
LastSegment(s) ==
  LET slashes == {i \in 1..Len(s) : s[i] = "/"}
  IN  IF slashes = {} THEN s
      ELSE SubSeq(s, (CHOOSE i \in slashes : \A j \in slashes : j <= i) + 1,
                  Len(s))

-----------------------------------------------------------------------------
(* JSON values as JavaScript sees them *)

Undefined == [t |-> "undefined"]
Null == [t |-> "null"]
Str(s) == [t |-> "string", v |-> s]
Num(n) == [t |-> "number", v |-> n]
Arr(s) == [t |-> "array", v |-> s]
Obj(m) == [t |-> "object", v |-> m]
Member(k, x) == [k |-> k, val |-> x]

EmptyString == Str(<<>>)

\* ToBoolean
Truthy(x) ==
  CASE x.t = "undefined" -> FALSE
    [] x.t = "null" -> FALSE
    [] x.t = "string" -> Len(x.v) > 0
    [] x.t = "number" -> x.v # 0
    [] OTHER -> TRUE

IsArray(x) == x.t = "array"
IsString(x) == x.t = "string"

\* x[k] for a property name k that is not an array index: only an object
\* has such own properties; undefined and null throw (see Nullish)
Get(x, k) ==
  IF x.t = "object" /\ \E i \in 1..Len(x.v) : x.v[i].k = k
    THEN x.v[CHOOSE i \in 1..Len(x.v) : x.v[i].k = k].val
    ELSE Undefined

Nullish(x) == x.t \in {"undefined", "null"}

\* x?.[k]
OptGet(x, k) == IF Nullish(x) THEN Undefined ELSE Get(x, k)

\* x[0]
First(x) ==
  CASE x.t = "array" /\ Len(x.v) > 0 -> x.v[1]
    [] x.t = "string" /\ Len(x.v) > 0 -> Str(<<x.v[1]>>)
    [] OTHER -> Undefined

\* x?.[0]
OptFirst(x) == IF Nullish(x) THEN Undefined ELSE First(x)

\* a || b
Or(a, b) == IF Truthy(a) THEN a ELSE b

\* [x[k] : k of Object.keys(x)] for a truthy x, in key order
OwnValues(x) ==
  CASE x.t = "object" -> [i \in 1..Len(x.v) |-> x.v[i].val]
    [] x.t = "array" -> x.v
    [] x.t = "string" -> [i \in 1..Len(x.v) |-> Str(<<x.v[i]>>)]
    [] OTHER -> <<>>

-----------------------------------------------------------------------------
(* The helper functions of the script *)

\* Numbers too wide for one machine integer are kept as hi * 10^8 + lo.
Big(hi, lo) == [hi |-> hi, lo |-> lo]

BigLess(a, b) == a.hi < b.hi \/ (a.hi = b.hi /\ a.lo < b.lo)

\* value of a decimal digit string of at most 8 digits
RECURSIVE DecimalValue(_)
DecimalValue(ds) ==
  IF Len(ds) = 0 THEN 0
  ELSE 10 * DecimalValue(SubSeq(ds, 1, Len(ds) - 1)) + DigitVal(ds[Len(ds)])

\* the mathematical integer a digit string of at most 16 digits denotes
DecimalBig(ds) ==
  IF Len(ds) <= 8 THEN Big(0, DecimalValue(ds))
  ELSE Big(DecimalValue(SubSeq(ds, 1, Len(ds) - 8)),
           DecimalValue(SubSeq(ds, Len(ds) - 7, Len(ds))))

\* Number.MAX_SAFE_INTEGER = 2^53 - 1 = 9007199254740991
MAX_SAFE_INTEGER == Big(90071992, 54740991)

\* The Number (IEEE double) nearest to an integer below 10^16: exact up to
\* 2^53; from 2^53 to 2^54 doubles are the even integers, ties go to the
\* even significand, which is the multiple of 4.
ToNumber(n) ==
  IF ~BigLess(MAX_SAFE_INTEGER, n) \/ n.lo % 2 = 0 THEN n
  ELSE IF n.lo % 4 = 1 THEN Big(n.hi, n.lo - 1)
  ELSE IF n.lo + 1 = 100000000 THEN Big(n.hi + 1, 0)
  ELSE Big(n.hi, n.lo + 1)

\* Number.parseInt(ds, 10) of a non-empty digit string
ParseInt(ds) == ToNumber(DecimalBig(ds))

\* isJsonFile without toLowerCase
isJsonFile_caseSensitive(name) == EndsWith(name, DotJson)

isJsonFile(name) == EndsWith(ToLowerCase(name), DotJson)

\* The digits captured by /recipe-(\d+)\.json$/i in filename, <<>> when the
\* pattern does not match. The pattern is anchored at the end only: the
\* capture is the whole run of digits before the final ".json", and it must
\* follow "recipe-" directly.
RecipeDigits(filename) ==
  LET low == ToLowerCase(filename)
      stem == SubSeq(low, 1, Len(low) - 5)
      starts == {i \in 1..Len(stem) : \A j \in i..Len(stem) : IsDigit(stem[j])}
      from == CHOOSE i \in starts : \A j \in starts : i <= j
  IN  IF EndsWith(low, DotJson) /\ starts # {}
         /\ EndsWith(SubSeq(stem, 1, from - 1), RecipeDash)
        THEN SubSeq(stem, from, Len(stem))
        ELSE <<>>

naturalRecipeKey(filename) ==
  IF RecipeDigits(filename) # <<>> THEN ParseInt(RecipeDigits(filename))
  ELSE MAX_SAFE_INTEGER

\* pickLang without the fallback to the other language
pickLang_noFallback(iiifLangMap, lang) ==
  IF ~Truthy(iiifLangMap) THEN EmptyString
  ELSE IF IsString(iiifLangMap) THEN iiifLangMap
  ELSE LET v == Get(iiifLangMap, lang)
       IN  IF IsArray(v) THEN Or(First(v), EmptyString)
           ELSE Or(v, EmptyString)

pickLang(iiifLangMap, lang) ==
  IF ~Truthy(iiifLangMap) THEN EmptyString
  ELSE IF IsString(iiifLangMap) THEN iiifLangMap
  ELSE LET v == Or(Or(Get(iiifLangMap, lang), Get(iiifLangMap, "en")),
                   Get(iiifLangMap, "it"))
       IN  IF IsArray(v) THEN Or(First(v), EmptyString)
           ELSE Or(v, EmptyString)

\* manifest?.items?.[0]?.items?.[0]?.items?.[0]?.body
PaintingBody(manifest) ==
  OptGet(OptFirst(OptGet(OptFirst(OptGet(OptFirst(
    OptGet(manifest, "items")), "items")), "items")), "body")

\* getThumbnail with the painting body tried first
getThumbnail_bodyFirst(manifest) ==
  LET t == Get(manifest, "thumbnail")
      body == PaintingBody(manifest)
  IN  IF Truthy(OptGet(body, "id")) THEN Get(body, "id")
      ELSE IF IsArray(t) /\ Truthy(First(t)) /\ IsString(First(t)) THEN First(t)
      ELSE IF IsArray(t) /\ Truthy(First(t)) /\ Truthy(OptGet(First(t), "id"))
        THEN Get(First(t), "id")
      ELSE EmptyString

getThumbnail(manifest) ==
  LET t == Get(manifest, "thumbnail")
      body == PaintingBody(manifest)
  IN  IF IsArray(t) /\ Truthy(First(t)) /\ IsString(First(t)) THEN First(t)
      ELSE IF IsArray(t) /\ Truthy(First(t)) /\ Truthy(OptGet(First(t), "id"))
        THEN Get(First(t), "id")
      ELSE IF Truthy(OptGet(body, "id")) THEN Get(body, "id")
      ELSE EmptyString

RECURSIVE Flatten(_)
Flatten(ss) == IF Len(ss) = 0 THEN <<>> ELSE Head(ss) \o Flatten(Tail(ss))

\* the test of line 70
IsRecipeDataUrl(s) ==
  IsString(s) /\ Includes(s.v, DataDir) /\ EndsWith(s.v, DotJson)

\* the strings one metadata entry pushes onto urls, in push order
EntryUrls(entry) ==
  LET value == OptGet(entry, "value")
      arrs == IF Truthy(value) THEN OwnValues(value) ELSE <<>>
  IN  SelectSeq(
        Flatten([i \in 1..Len(arrs) |->
                   IF IsArray(arrs[i]) THEN arrs[i].v ELSE <<>>]),
        IsRecipeDataUrl)

extractRecipeDataUrlFromMetadata(manifest) ==
  LET md == Get(manifest, "metadata")
      urls == IF IsArray(md)
                THEN Flatten([i \in 1..Len(md.v) |-> EntryUrls(md.v[i])])
                ELSE <<>>
  IN  IF Len(urls) > 0 THEN Or(urls[1], EmptyString) ELSE EmptyString

\* manifestId is undefined, null, a string or a number here; split exists
\* on strings only (see BodyThrows)
inferIdFromManifestId(manifestId) ==
  IF ~Truthy(manifestId) THEN EmptyString
  ELSE Str(StripJson(Or(Str(LastSegment(manifestId.v)), EmptyString).v))

inferDataUrl(base, id) ==
  IF ~Truthy(id) THEN EmptyString
  ELSE Str(base \o DataDir \o id.v \o DotJson)

\* ensureAbsolute joining base and value as they are
ensureAbsolute_plainJoin(base, maybeUrl) ==
  IF ~Truthy(maybeUrl) THEN EmptyString
  ELSE IF IsAbsoluteHttp(maybeUrl.v) THEN maybeUrl
  ELSE Str(base \o <<"/">> \o maybeUrl.v)

\* maybeUrl is a string here (see BodyThrows)
ensureAbsolute(base, maybeUrl) ==
  IF ~Truthy(maybeUrl) THEN EmptyString
  ELSE IF IsAbsoluteHttp(maybeUrl.v) THEN maybeUrl
  ELSE Str(StripTrailingSlash(base) \o <<"/">> \o StripLeadingSlash(maybeUrl.v))

-----------------------------------------------------------------------------
(* The body of the loop of main *)

ManifestsDir == <<"m", "a", "n", "i", "f", "e", "s", "t", "s">>

\* "https://BeatriceVaienti.github.io/family-recipes"
DefaultPagesBase ==
  HttpsScheme
  \o <<"B","e","a","t","r","i","c","e","V","a","i","e","n","t","i">>
  \o <<".","g","i","t","h","u","b",".","i","o","/">>
  \o <<"f","a","m","i","l","y","-","r","e","c","i","p","e","s">>

\* process.env.PAGES_BASE || default; env is <<>> when unset or empty
PAGES_BASE(env) == IF Len(env) > 0 THEN env ELSE DefaultPagesBase

\* The TypeErrors the body can raise on a parsed manifest: a property read
\* of null (line 112), split of a truthy id that is not a string (line 82),
\* replace of a truthy thumbnail that is not a string (line 96). The values
\* of the model that are neither strings nor falsy are numbers, whose
\* string form never starts with http://.
BodyThrows(manifest) ==
  \/ Nullish(manifest)
  \/ Truthy(Get(manifest, "id")) /\ ~IsString(Get(manifest, "id"))
  \/ Truthy(getThumbnail(manifest)) /\ ~IsString(getThumbnail(manifest))

\* line 112
EntryId(file, manifest) ==
  Or(inferIdFromManifestId(Get(manifest, "id")), Str(StripJson(file)))

\* lines 119-121
EntryData(base, file, manifest) ==
  ensureAbsolute(base,
    Or(extractRecipeDataUrlFromMetadata(manifest),
       inferDataUrl(base, EntryId(file, manifest))))

\* lines 108-133: the entry pushed for a manifest the body does not throw on
BuildEntry(base, file, manifest) ==
  [id |-> EntryId(file, manifest),
   label |-> Or(Get(manifest, "label"), Obj(<<>>)),
   summary |-> Or(Get(manifest, "summary"), Obj(<<>>)),
   manifest |-> Str(base \o <<"/">> \o ManifestsDir \o <<"/">> \o file),
   data |-> EntryData(base, file, manifest),
   thumbnail |-> ensureAbsolute(base, getThumbnail(manifest)),
   title_it |-> pickLang(Or(Get(manifest, "label"), Obj(<<>>)), "it"),
   title_en |-> pickLang(Or(Get(manifest, "label"), Obj(<<>>)), "en")]

-----------------------------------------------------------------------------
(* Inputs of the loop body: pages bases, file names, manifests *)

MaxBaseLen == 2
MaxValLen == 2
MaxIdLen == 3
MaxArr == 2
MaxMeta == 2

\* all strings over alphabet of length at most n
Strings(alphabet, n) == UNION {[1..k -> alphabet] : k \in 0..n}

UpperJson == <<".", "J", "S", "O", "N">>
UpperHttp == <<"H", "T", "T", "P", ":", "/", "/">>

\* values of PAGES_BASE: absolute and relative, with and without slashes
Bases ==
  {PAGES_BASE(scheme \o rest) :
     scheme \in {<<>>, HttpsScheme}, rest \in Strings({"/", "h"}, MaxBaseLen)}

\* pages bases of the manifests whose other fields vary
EntryBases == {HttpsScheme \o <<"h">>, <<"/", "h">>}

\* thumbnail strings: empty, relative, absolute in either letter case
Values ==
  {scheme \o rest :
     scheme \in {<<>>, HttpsScheme, UpperHttp},
     rest \in Strings({"/", "a"}, MaxValLen)}

EntryFile == <<"f", "9">> \o UpperJson
OtherFile == <<"g">> \o DotJson

Manifest(members) == Obj(members)

AbsManifests == {Manifest(<<Member("thumbnail", Arr(<<Str(v)>>))>>) : v \in Values}

\* manifest.id: absent, null, a number, and every path over "/" and "a"
\* with no suffix, ".json" or ".JSON"
IdValues ==
  {Undefined, Null, Num(7)}
  \cup {Str(path \o suffix) :
          path \in Strings({"/", "a"}, MaxIdLen),
          suffix \in {<<>>, DotJson, UpperJson}}

IdManifests ==
  {IF id = Undefined THEN Manifest(<<>>) ELSE Manifest(<<Member("id", id)>>) :
     id \in IdValues}

\* items[0].items[0].items[0].body = body
Items(body) ==
  Arr(<<Obj(<<Member("items",
    Arr(<<Obj(<<Member("items",
      Arr(<<Obj(<<Member("body", body)>>)>>))>>)>>))>>)>>)

ThumbElements ==
  {Null, Str(<<>>), Str(<<"t">>), Num(5), Obj(<<>>),
   Obj(<<Member("id", Str(<<>>))>>), Obj(<<Member("id", Str(<<"i">>))>>),
   Obj(<<Member("id", Num(5))>>)}

ThumbValues ==
  {Undefined, Str(<<"t">>), Arr(<<>>)}
  \cup {Arr(<<e>>) : e \in ThumbElements}
  \cup {Arr(<<e, Str(<<"u">>)>>) : e \in ThumbElements}

ItemsValues ==
  {Undefined, Arr(<<>>), Arr(<<Obj(<<>>)>>), Items(Null), Items(Obj(<<>>)),
   Items(Obj(<<Member("id", Str(<<>>))>>)),
   Items(Obj(<<Member("id", Str(<<"b">>))>>)),
   Items(Obj(<<Member("id", Num(5))>>))}

ThumbManifests ==
  {Manifest((IF t = Undefined THEN <<>> ELSE <<Member("thumbnail", t)>>)
            \o (IF i = Undefined THEN <<>> ELSE <<Member("items", i)>>)) :
     t \in ThumbValues, i \in ItemsValues}

\* metadata strings: two that pass the test of line 70 and two that fail it
RelativeDataUrl == Str(DataDir \o <<"a">> \o DotJson)
AbsoluteDataUrl == Str(HttpsScheme \o <<"h">> \o DataDir \o <<"b">> \o DotJson)
UpperSuffixUrl == Str(DataDir \o <<"c">> \o UpperJson)
NoDataDirUrl == Str(<<"d">> \o DotJson)

DataArrays ==
  {Arr(a) :
     a \in Strings({RelativeDataUrl, AbsoluteDataUrl, UpperSuffixUrl}, MaxArr)}

LangMaps ==
  {RelativeDataUrl, Arr(<<Arr(<<Str(DataDir \o DotJson)>>)>>)}
  \cup {Obj(<<Member("it", a)>>) : a \in DataArrays}
  \cup {Obj(<<Member("en", a), Member("it", b)>>) :
          a \in {Arr(<<>>), Arr(<<AbsoluteDataUrl>>), Arr(<<NoDataDirUrl>>),
                 AbsoluteDataUrl},
          b \in {Arr(<<RelativeDataUrl>>), Arr(<<UpperSuffixUrl>>)}}

ValueEntry(value) == Obj(<<Member("label", Obj(<<>>)), Member("value", value)>>)

\* entries of a metadata array with several entries
FewEntries ==
  {Null, Obj(<<>>),
   ValueEntry(Obj(<<Member("it", Arr(<<RelativeDataUrl>>))>>)),
   ValueEntry(Obj(<<Member("it", Arr(<<AbsoluteDataUrl>>))>>)),
   ValueEntry(Obj(<<Member("it", Arr(<<UpperSuffixUrl>>))>>)),
   ValueEntry(Obj(<<Member("en", Arr(<<NoDataDirUrl>>)),
                    Member("it", Arr(<<AbsoluteDataUrl>>))>>))}

MetadataValues ==
  {Undefined, Str(DataDir \o DotJson)}
  \cup {Arr(<<ValueEntry(v)>>) : v \in LangMaps}
  \cup {Arr(m) : m \in Strings(FewEntries, MaxMeta)}

DataManifests ==
  {Manifest(id \o (IF md = Undefined THEN <<>> ELSE <<Member("metadata", md)>>)) :
     id \in {<<>>, <<Member("id", Str(<<"x", "/", "r", "9">> \o DotJson))>>},
     md \in MetadataValues}

\* what a language key of a label holds; s is the text in that language
LangValues(s) ==
  {Undefined, Null, Str(<<>>), Str(s), Num(4), Arr(<<>>), Arr(<<Str(<<>>)>>),
   Arr(<<Str(s)>>), Arr(<<Str(s), Str(<<"z">>)>>), Arr(<<Num(3)>>),
   Arr(<<Null, Str(s)>>)}

LabelValues ==
  {Undefined, Null, Str(<<>>), Str(<<"T">>), Num(5), Arr(<<Str(<<"T">>)>>)}
  \cup {Obj((IF it = Undefined THEN <<>> ELSE <<Member("it", it)>>)
            \o (IF en = Undefined THEN <<>> ELSE <<Member("en", en)>>)
            \o fr) :
          it \in LangValues(<<"I">>), en \in LangValues(<<"E">>),
          fr \in {<<>>, <<Member("fr", Arr(<<Str(<<"F">>)>>))>>}}

LabelManifests ==
  {IF l = Undefined THEN Manifest(<<>>) ELSE Manifest(<<Member("label", l)>>) :
     l \in LabelValues}

\* JSON.parse also yields null, which the body throws on
OtherManifests == {Null, Num(1), Str(<<"m">>), Arr(<<>>)}

-----------------------------------------------------------------------------
(* State of a process and of the files around it *)

Running == -1
NoLine == -1
NoError == "none"
Pending == [t |-> "pending"]
Thrown == [t |-> "thrown"]
Absent == [kind |-> "absent"]
Foreign == [kind |-> "foreign"]
Truncated == [kind |-> "truncated"]

\* JSON.stringify(out, null, 2) + "\n"
Stringify(o) == [kind |-> "json", value |-> Arr(o), indent |-> 2, eol |-> TRUE]

NoInput == [file |-> <<>>, manifest |-> Undefined]

\* a raw file content and JSON.parse of it
Malformed == [ok |-> FALSE]
Text(value) == [ok |-> TRUE, value |-> value]
JSONparse(raw) == raw.value

\* the state main starts in
FreshProcess ==
  /\ files = <<>> /\ out = <<>> /\ reads = <<>> /\ writes = 0
  /\ stdout = NoLine /\ err = NoError /\ stderr = NoError
  /\ exitCode = Running

-----------------------------------------------------------------------------
(* main, the catch handler, and the runs of the builder *)

MaxFiles == 3
MaxListing == 3
MaxRuns == 2

\* listings of at most n distinct names
Listings(names, n) ==
  {l \in Strings(names, n) : \A i, j \in 1..Len(l) : l[i] = l[j] => i = j}

Recipe(digits) == RecipeDash \o digits \o DotJson

PipelineNames ==
  {Recipe(<<"2">>), Recipe(<<"1", "0">>), <<"n">> \o UpperJson,
   <<"r", ".", "m", "d">>}

SortNames ==
  {Recipe(<<"2">>), Recipe(<<"1", "0">>), Recipe(<<"0", "0", "7">>),
   <<"R", "E", "C", "I", "P", "E", "-", "3">> \o UpperJson,
   <<"n">> \o DotJson, <<"b">> \o DotJson, <<"r", ".", "m", "d">>,
   Recipe(<<"9","0","0","7","1","9","9","2","5","4","7","4","0","9","9","3">>)}

\* the value of PAGES_BASE in the environment of the runs
RunEnv == HttpsScheme \o <<"h">>

SampleManifest ==
  Manifest(<<Member("id", Str(<<"x", "/", "r", "9">> \o DotJson)),
             Member("label", Obj(<<Member("en", Arr(<<Str(<<"E">>)>>))>>)),
             Member("thumbnail", Arr(<<Str(<<"t">>)>>))>>)

Contents == {Malformed, Text(Null), Text(Manifest(<<>>)), Text(SampleManifest)}

JsonNames(listing) == {listing[i] : i \in {j \in 1..Len(listing) : isJsonFile(listing[j])}}

\* files.filter(isJsonFile)
FilterJson(listing) == SelectSeq(listing, isJsonFile)

\* the comparator of line 103 is negative or zero: a does not go after b
NotAfter(a, b) == ~BigLess(naturalRecipeKey(b), naturalRecipeKey(a))

\* Array.prototype.sort is stable: x goes behind every element not after it
RECURSIVE InsertSorted(_, _)
InsertSorted(sorted, x) ==
  IF Len(sorted) = 0 THEN <<x>>
  ELSE IF NotAfter(sorted[Len(sorted)], x) THEN Append(sorted, x)
  ELSE Append(InsertSorted(SubSeq(sorted, 1, Len(sorted) - 1), x),
              sorted[Len(sorted)])

RECURSIVE SortFiles(_)
SortFiles(l) ==
  IF Len(l) = 0 THEN <<>>
  ELSE InsertSorted(SortFiles(SubSeq(l, 1, Len(l) - 1)), l[Len(l)])

Init ==
  /\ pagesBase = PAGES_BASE(RunEnv)
  /\ dir \in Listings(PipelineNames, MaxFiles)
  /\ disk \in [JsonNames(dir) -> Contents]
  /\ recipesJson \in {Absent, Foreign}
  /\ pc = "readdir"
  /\ FreshProcess
  /\ run = 1 /\ written = <<>>
  /\ fnIn = NoInput /\ fnOut = Pending

\* lines 101-103
ReadDirOk ==
  /\ pc = "readdir"
  /\ files' = SortFiles(FilterJson(dir))
  /\ pc' = "loop"
  /\ UNCHANGED <<pagesBase, err, dir, disk, recipesJson, out, reads, writes, stdout,
                 stderr, exitCode, run, written, fnIn, fnOut>>

\* fs.readdir rejects: no directory, no permission
ReadDirFail ==
  /\ pc = "readdir"
  /\ err' = "readdir"
  /\ pc' = "catch"
  /\ UNCHANGED <<pagesBase, dir, disk, recipesJson, files, out, reads, writes,
                 stdout, stderr, exitCode, run, written, fnIn, fnOut>>

\* the file of the iteration the loop is at
CurrentFile == files[Len(out) + 1]

InLoop == pc = "loop" /\ Len(out) < Len(files)

\* lines 109-110: the file is read and parses
ReadFileOk ==
  /\ InLoop
  /\ disk[CurrentFile].ok
  /\ reads' = Append(reads, CurrentFile)
  /\ fnIn' = [file |-> CurrentFile, manifest |-> JSONparse(disk[CurrentFile])]
  /\ fnOut' = Pending
  /\ pc' = "body"
  /\ UNCHANGED <<pagesBase, err, dir, disk, recipesJson, files, out, writes, stdout,
                 stderr, exitCode, run, written>>

\* line 109: fs.readFile rejects
ReadFileFail ==
  /\ InLoop
  /\ reads' = Append(reads, CurrentFile)
  /\ err' = "readFile"
  /\ pc' = "catch"
  /\ UNCHANGED <<pagesBase, dir, disk, recipesJson, files, out, writes, stdout,
                 stderr, exitCode, run, written, fnIn, fnOut>>

\* ParseFail with the bad manifest skipped and the loop going on
ParseFail_skip ==
  /\ InLoop
  /\ ~disk[CurrentFile].ok
  /\ reads' = Append(reads, CurrentFile)
  /\ files' = SubSeq(files, 1, Len(out)) \o SubSeq(files, Len(out) + 2, Len(files))
  /\ UNCHANGED <<pagesBase, dir, disk, recipesJson, pc, out, writes, stdout,
                 err, stderr, exitCode, run, written, fnIn, fnOut>>

\* line 110: JSON.parse throws
ParseFail ==
  /\ InLoop
  /\ ~disk[CurrentFile].ok
  /\ reads' = Append(reads, CurrentFile)
  /\ err' = "SyntaxError"
  /\ pc' = "catch"
  /\ UNCHANGED <<pagesBase, dir, disk, recipesJson, files, out, writes, stdout,
                 stderr, exitCode, run, written, fnIn, fnOut>>

\* lines 112-133: the entry is built and pushed
BodyOk ==
  /\ pc = "body"
  /\ ~BodyThrows(fnIn.manifest)
  /\ fnOut' = BuildEntry(pagesBase, fnIn.file, fnIn.manifest)
  /\ out' = Append(out, fnOut')
  /\ pc' = "loop"
  /\ UNCHANGED <<pagesBase, err, dir, disk, recipesJson, files, reads, writes, stdout,
                 stderr, exitCode, run, written, fnIn>>

\* lines 112-121: a TypeError
BodyThrow ==
  /\ pc = "body"
  /\ BodyThrows(fnIn.manifest)
  /\ fnOut' = Thrown
  /\ err' = "TypeError"
  /\ pc' = "catch"
  /\ UNCHANGED <<pagesBase, dir, disk, recipesJson, files, out, reads, writes,
                 stdout, stderr, exitCode, run, written, fnIn>>

AtWrite == pc = "loop" /\ Len(out) = Len(files)

\* WriteOk adding the entries to the index the file holds
WriteOk_merge ==
  /\ AtWrite
  /\ recipesJson' = IF recipesJson.kind = "json"
                      THEN Stringify(recipesJson.value.v \o out)
                      ELSE Stringify(out)
  /\ writes' = writes + 1
  /\ written' = Append(written, recipesJson')
  /\ pc' = "log"
  /\ UNCHANGED <<pagesBase, dir, disk, files, out, reads, stdout, err, stderr,
                 exitCode, run, fnIn, fnOut>>

\* lines 136-140: fs.writeFile replaces the file
WriteOk ==
  /\ AtWrite
  /\ recipesJson' = Stringify(out)
  /\ writes' = writes + 1
  /\ written' = Append(written, recipesJson')
  /\ pc' = "log"
  /\ UNCHANGED <<pagesBase, err, dir, disk, files, out, reads, stdout, stderr,
                 exitCode, run, fnIn, fnOut>>

\* WriteFail with the rejection swallowed
WriteFail_swallowed ==
  /\ AtWrite
  /\ recipesJson' \in {recipesJson, Truncated}
  /\ writes' = writes + 1
  /\ pc' = "log"
  /\ UNCHANGED <<pagesBase, dir, disk, files, out, reads, stdout, err, stderr,
                 exitCode, run, written, fnIn, fnOut>>

\* lines 136-140: fs.writeFile rejects, before or after truncating the file
WriteFail ==
  /\ AtWrite
  /\ recipesJson' \in {recipesJson, Truncated}
  /\ writes' = writes + 1
  /\ err' = "writeFile"
  /\ pc' = "catch"
  /\ UNCHANGED <<pagesBase, dir, disk, files, out, reads, stdout, stderr,
                 exitCode, run, written, fnIn, fnOut>>

\* line 142
Log ==
  /\ pc = "log"
  /\ stdout' = Len(out)
  /\ pc' = "end"
  /\ UNCHANGED <<pagesBase, err, dir, disk, recipesJson, files, out, reads, writes,
                 stderr, exitCode, run, written, fnIn, fnOut>>

\* main resolves and the process ends by itself
ExitOk ==
  /\ pc = "end"
  /\ exitCode' = 0
  /\ pc' = "exited"
  /\ UNCHANGED <<pagesBase, err, dir, disk, recipesJson, files, out, reads, writes,
                 stdout, stderr, run, written, fnIn, fnOut>>

\* lines 145-148
Catch ==
  /\ pc = "catch"
  /\ stderr' = err
  /\ exitCode' = 1
  /\ pc' = "exited"
  /\ UNCHANGED <<pagesBase, err, dir, disk, recipesJson, files, out, reads, writes,
                 stdout, run, written, fnIn, fnOut>>

\* The builder is started again on the same manifests and pages base;
\* recipes.json is what the last run left, or anything else by then.
Rerun ==
  /\ pc = "exited"
  /\ run < MaxRuns
  /\ run' = run + 1
  /\ recipesJson' \in {recipesJson, Absent, Foreign}
  /\ pc' = "readdir"
  /\ files' = <<>> /\ out' = <<>> /\ reads' = <<>> /\ writes' = 0
  /\ stdout' = NoLine /\ err' = NoError /\ stderr' = NoError
  /\ exitCode' = Running
  /\ fnIn' = NoInput /\ fnOut' = Pending
  /\ UNCHANGED <<pagesBase, dir, disk, written>>

Next ==
  \/ ReadDirOk \/ ReadDirFail
  \/ ReadFileOk \/ ReadFileFail \/ ParseFail
  \/ BodyOk \/ BodyThrow
  \/ WriteOk \/ WriteFail
  \/ Log \/ ExitOk \/ Catch
  \/ Rerun

Spec == Init /\ [][Next]_vars

\* One evaluation of the loop body on one parsed manifest
InitEntry ==
  /\ dir = <<>> /\ disk = <<>> /\ recipesJson = Absent
  /\ FreshProcess
  /\ run = 1 /\ written = <<>>
  /\ pc = "body"
  /\ fnOut = Pending
  /\ \/ \E b \in Bases, m \in AbsManifests :
          /\ pagesBase = b
          /\ fnIn = [file |-> EntryFile, manifest |-> m]
     \/ \E b \in EntryBases,
           m \in ThumbManifests \cup DataManifests \cup LabelManifests :
          /\ pagesBase = b
          /\ fnIn = [file |-> EntryFile, manifest |-> m]
     \/ \E b \in EntryBases, m \in IdManifests \cup OtherManifests,
           f \in {EntryFile, OtherFile} :
          /\ pagesBase = b
          /\ fnIn = [file |-> f, manifest |-> m]

NextEntry == BodyOk \/ BodyThrow

SpecEntry == InitEntry /\ [][NextEntry]_vars

\* The listing and the sort alone, over more file names
InitSort ==
  /\ pagesBase = PAGES_BASE(RunEnv)
  /\ dir \in Listings(SortNames, MaxListing)
  /\ disk = <<>> /\ recipesJson = Absent
  /\ pc = "readdir"
  /\ FreshProcess
  /\ run = 1 /\ written = <<>>
  /\ fnIn = NoInput /\ fnOut = Pending

NextSort == ReadDirOk \/ ReadDirFail

SpecSort == InitSort /\ [][NextSort]_vars

-----------------------------------------------------------------------------
(* Properties of one entry *)

Built == fnOut \notin {Pending, Thrown}

Slash == <<"/">>

\* s without the slashes at its end
RECURSIVE WithoutTrailingSlashes(_)
WithoutTrailingSlashes(s) ==
  IF Len(s) > 0 /\ s[Len(s)] = "/"
    THEN WithoutTrailingSlashes(SubSeq(s, 1, Len(s) - 1))
    ELSE s

\* the last segment of s between slashes that is not empty
LastNonEmptySegment(s) == LastSegment(WithoutTrailingSlashes(s))

\* C5: for a manifest whose id is a non-empty string, the id of the entry is
\* the last non-empty "/"-separated segment of manifest.id without a
\* trailing .json, whatever the file is called (also when manifest.id ends
\* with "/"); the file name without .json is the id when manifest.id is
\* absent or empty.
C5_IdFromManifestId ==
  Built =>
    LET id == Get(fnIn.manifest, "id")
    IN  /\ (IsString(id) /\ WithoutTrailingSlashes(id.v) # <<>>)
             => fnOut.id = Str(StripJson(LastNonEmptySegment(id.v)))
        /\ ~Truthy(id) => fnOut.id = Str(StripJson(fnIn.file))

\* the places <<entry, language key, index>> of the metadata strings that
\* contain /data/ and end with .json
DataUrlPlaces(manifest) ==
  LET md == Get(manifest, "metadata")
      value(e) == OptGet(md.v[e], "value")
      arrs(e) == IF Truthy(value(e)) THEN OwnValues(value(e)) ELSE <<>>
  IN  IF ~IsArray(md) THEN {}
      ELSE {p \in UNION {UNION {{<<e, k, i>> : i \in 1..Len(arrs(e)[k].v)} :
                                  k \in {j \in 1..Len(arrs(e)) : IsArray(arrs(e)[j])}} :
                           e \in 1..Len(md.v)} :
              IsRecipeDataUrl(arrs(p[1])[p[2]].v[p[3]])}

PlaceBefore(p, q) ==
  \/ p[1] < q[1]
  \/ p[1] = q[1] /\ p[2] < q[2]
  \/ p[1] = q[1] /\ p[2] = q[2] /\ p[3] <= q[3]

FirstDataUrl(manifest) ==
  LET places == DataUrlPlaces(manifest)
      p == CHOOSE q \in places : \A r \in places : PlaceBefore(q, r)
  IN  OwnValues(Get(Get(manifest, "metadata").v[p[1]], "value"))[p[2]].v[p[3]]

\* C6: the data URL is the first metadata string, in entry order, then
\* language-key order, then array order, that contains /data/ and ends with
\* .json, normalized to an absolute URL; without such a string it is
\* <pagesBase>/data/<id>.json for the id of the entry.
C6_DataUrl ==
  Built =>
    IF DataUrlPlaces(fnIn.manifest) # {}
      THEN fnOut.data = ensureAbsolute(pagesBase, FirstDataUrl(fnIn.manifest))
      ELSE fnOut.data = Str(pagesBase \o DataDir \o fnOut.id.v \o DotJson)

\* The part of C6 that the code keeps: the scan order, and the fallback
\* being used only without a match.
C6_ScanOrder ==
  Built /\ DataUrlPlaces(fnIn.manifest) # {}
    => fnOut.data = ensureAbsolute(pagesBase, FirstDataUrl(fnIn.manifest))

HasMember(x, k) == x.t = "object" /\ \E i \in 1..Len(x.v) : x.v[i].k = k

\* the thumbnail of the claim as first stated: any first string, any id
StatedThumbnail(manifest) ==
  LET t == Get(manifest, "thumbnail")
      body == PaintingBody(manifest)
  IN  IF IsArray(t) /\ Len(t.v) > 0 /\ IsString(t.v[1]) THEN t.v[1]
      ELSE IF IsArray(t) /\ Len(t.v) > 0 /\ HasMember(t.v[1], "id")
        THEN Get(t.v[1], "id")
      ELSE IF HasMember(body, "id") THEN Get(body, "id")
      ELSE EmptyString

\* C7 as first stated: (a) the first element of manifest.thumbnail when it
\* is a string, or its id when it is an object with an id; (b) otherwise
\* the id of items[0].items[0].items[0].body when present; (c) otherwise
\* the empty string.
C7_StatedThumbnail ==
  Built =>
    fnOut.thumbnail = ensureAbsolute(pagesBase, StatedThumbnail(fnIn.manifest))

NonEmptyString(x) == IsString(x) /\ x.v # <<>>

\* C7, amended: (a) the first element of manifest.thumbnail when it is a
\* non-empty string, or its id when it is an object whose id is not empty;
\* (b) otherwise, also when the first element is an empty string or an
\* object with no id or an empty id, the id of
\* items[0].items[0].items[0].body when that id is not empty; (c) otherwise
\* the empty string; (b) is not used when (a) yields a value.
C7_Thumbnail ==
  Built =>
    LET t == Get(fnIn.manifest, "thumbnail")
        a == IF IsArray(t) /\ Len(t.v) > 0
               THEN IF NonEmptyString(t.v[1]) THEN t.v[1]
                    ELSE IF HasMember(t.v[1], "id") THEN Get(t.v[1], "id")
                    ELSE EmptyString
               ELSE EmptyString
        body == PaintingBody(fnIn.manifest)
        b == IF HasMember(body, "id") THEN Get(body, "id") ELSE EmptyString
        raw == IF NonEmptyString(a) THEN a
               ELSE IF NonEmptyString(b) THEN b
               ELSE EmptyString
    IN  fnOut.thumbnail = ensureAbsolute(pagesBase, raw)

\* an object without an id comes first in thumbnail and the body id is used
C7_Witness ==
  /\ Built
  /\ Get(fnIn.manifest, "thumbnail") = Arr(<<Obj(<<>>)>>)
  /\ pagesBase = <<"/", "h">>
  /\ fnOut.thumbnail = Str(<<"/", "h", "/", "b">>)

\* the two values main passes to ensureAbsolute for the entry it built
RawThumbnail == getThumbnail(fnIn.manifest)
RawData ==
  Or(extractRecipeDataUrlFromMetadata(fnIn.manifest),
     inferDataUrl(pagesBase, fnOut.id))

\* base, "/" and value meet without a slash before or after the "/"
SingleSlashJoin(base, value) ==
  /\ ~EndsWith(StripTrailingSlash(base), Slash)
  /\ ~StartsWith(StripLeadingSlash(value), Slash)

\* normalization as C8 first states it, of value into result
StatedAbsolute(base, value, result) ==
  IF value = <<>> THEN result = <<>>
  ELSE IF IsAbsoluteHttp(value) THEN result = value
  ELSE /\ result = StripTrailingSlash(base) \o Slash \o StripLeadingSlash(value)
       /\ SingleSlashJoin(base, value)

\* C8 as first stated: an empty value stays empty, a value that starts with
\* http:// or https:// in any letter case is unchanged, any other value is
\* the pages base without its trailing slash, one slash, the value without
\* its leading slash, and the join never holds a doubled slash.
C8_StatedAbsolute ==
  Built =>
    /\ StatedAbsolute(pagesBase, RawThumbnail.v, fnOut.thumbnail.v)
    /\ StatedAbsolute(pagesBase, RawData.v, fnOut.data.v)

\* normalization as the amended C8 states it
AmendedAbsolute(base, value, result) ==
  IF value = <<>> THEN result = <<>>
  ELSE IF IsAbsoluteHttp(value) THEN result = value
  ELSE /\ result = StripTrailingSlash(base) \o Slash \o StripLeadingSlash(value)
       /\ (~EndsWith(base, <<"/", "/">>) /\ ~StartsWith(value, <<"/", "/">>))
            => SingleSlashJoin(base, value)

\* C8, amended: an empty value stays empty, a value that starts with
\* http:// or https:// in any letter case is unchanged, any other value is
\* the pages base without one trailing slash, one slash, the value without
\* one leading slash; the join holds no doubled slash when the pages base
\* does not end with two slashes and the value does not start with two.
C8_EnsureAbsolute ==
  Built =>
    /\ AmendedAbsolute(pagesBase, RawThumbnail.v, fnOut.thumbnail.v)
    /\ AmendedAbsolute(pagesBase, RawData.v, fnOut.data.v)

\* a relative thumbnail with a leading slash under a base with a trailing one
C8_Witness ==
  /\ Built
  /\ pagesBase = HttpsScheme \o <<"h", "/">>
  /\ RawThumbnail = Str(<<"/", "a">>)
  /\ fnOut.thumbnail = Str(HttpsScheme \o <<"h", "/", "a">>)

IsStringArray(x) == IsArray(x) /\ \A i \in 1..Len(x.v) : IsString(x.v[i])

\* the title of C10 as first stated
StatedTitle(label, lang) ==
  LET v == Or(Or(Get(label, lang), Get(label, "en")), Get(label, "it"))
  IN  IF label.t # "object" THEN EmptyString
      ELSE IF IsString(v) THEN v
      ELSE IF IsStringArray(v) /\ Len(v.v) > 0 THEN v.v[1]
      ELSE EmptyString

\* C10 as first stated: title_it and title_en are label[lang], else
\* label.en, else label.it, the first element when that is an array; each
\* is the empty string when the label is absent, is not an object, or the
\* value found is neither a string nor a non-empty array of strings.
C10_StatedTitles ==
  Built =>
    /\ fnOut.title_it = StatedTitle(Get(fnIn.manifest, "label"), "it")
    /\ fnOut.title_en = StatedTitle(Get(fnIn.manifest, "label"), "en")

\* the title of the amended C10
AmendedTitle(label, lang) ==
  LET v == IF Truthy(Get(label, lang)) THEN Get(label, lang)
           ELSE IF Truthy(Get(label, "en")) THEN Get(label, "en")
           ELSE Get(label, "it")
      picked == IF IsArray(v) THEN (IF Len(v.v) > 0 THEN v.v[1] ELSE Undefined)
                ELSE v
  IN  IF NonEmptyString(label) THEN label
      ELSE IF Truthy(picked) THEN picked
      ELSE EmptyString

\* C10, amended: a label that is a non-empty string is itself both titles;
\* otherwise title_it and title_en are label[lang], else label.en, else
\* label.it (an empty array counts as found), the first element when that
\* is an array, returned as it is when it is a non-empty string or another
\* truthy value; each is the empty string when the label is absent, is
\* neither an object nor a non-empty string, or the value picked is falsy.
C10_Titles ==
  Built =>
    /\ fnOut.title_it = AmendedTitle(Get(fnIn.manifest, "label"), "it")
    /\ fnOut.title_en = AmendedTitle(Get(fnIn.manifest, "label"), "en")

\* a label with an Italian text only: title_en falls back to it
C10_Witness ==
  /\ Built
  /\ Get(fnIn.manifest, "label") = Obj(<<Member("it", Arr(<<Str(<<"I">>)>>))>>)
  /\ fnOut.title_it = Str(<<"I">>)
  /\ fnOut.title_en = Str(<<"I">>)

-----------------------------------------------------------------------------
(* Properties of a run *)

\* some *.json manifest of the directory does not parse
BadManifest == \E f \in JsonNames(dir) : ~disk[f].ok

\* C1: when the content of at least one *.json manifest fails to parse as
\* JSON, wherever the file comes in the sorted order, the run never exits
\* with code 0, exits with code 1 when it exits, prints no summary, and
\* never writes recipes.json: no call of writeFile, no change of the file.
C1_NoPartialIndex ==
  /\ [](BadManifest =>
          /\ writes = 0
          /\ stdout = NoLine
          /\ exitCode # 0
          /\ (pc = "exited" => exitCode = 1))
  /\ [][BadManifest /\ run' = run => recipesJson' = recipesJson]_vars

\* the bad manifest came after one that was processed
C1_Witness ==
  /\ pc = "exited" /\ exitCode = 1 /\ stderr = "SyntaxError"
  /\ Len(out) >= 1
  /\ writes = 0

IsPrefix(p, q) == Len(p) <= Len(q) /\ SubSeq(q, 1, Len(p)) = p

\* C2: manifests are read one at a time in sorted order; the first failure
\* of readdir, readFile, JSON.parse, the body or writeFile ends the run
\* with exit code 1, and after it no manifest is read, no write is
\* attempted and no summary is printed; the summary and exit code 0 come
\* only after the one write of recipes.json succeeded, which comes only
\* after every manifest was read and parsed.
C2_FailFast ==
  /\ [](/\ IsPrefix(reads, files)
        /\ writes <= 1
        /\ (writes = 1 => reads = files /\ Len(out) = Len(files))
        /\ (stdout # NoLine =>
              writes = 1 /\ err = NoError /\ recipesJson = Stringify(out))
        /\ (exitCode = 0 => stdout = Len(files))
        /\ (err # NoError => stdout = NoLine /\ exitCode # 0)
        /\ (pc = "catch" => err # NoError /\ exitCode = Running)
        /\ (pc = "exited" => exitCode \in {0, 1}))
  /\ [][/\ (err' # err /\ run' = run) => err = NoError /\ pc' = "catch"
        /\ pc = "catch" =>
             /\ pc' = "exited" /\ exitCode' = 1
             /\ UNCHANGED <<reads, writes, stdout, recipesJson>>
        /\ (pc = "exited" /\ run' = run) =>
             UNCHANGED <<reads, writes, stdout, recipesJson, exitCode>>
        /\ (reads' # reads /\ run' = run) =>
             /\ writes = 0
             /\ reads' = Append(reads, files[Len(reads) + 1])]_vars

\* readFile failed on the second of three manifests: the third is not read
C2_Witness ==
  /\ pc = "exited" /\ exitCode = 1 /\ stderr = "readFile"
  /\ Len(files) = 3 /\ Len(reads) = 2
  /\ writes = 0 /\ stdout = NoLine

\* the run wrote recipes.json and has not been followed by another run
Succeeded == pc \in {"log", "end"} \/ (pc = "exited" /\ exitCode = 0)

\* name ends in .json, letter case apart
NamedJson(name) ==
  /\ Len(name) >= 5
  /\ [i \in 1..5 |-> LowerChar(name[Len(name) - 5 + i])] = DotJson

ManifestUrl(name) == Str(pagesBase \o Slash \o ManifestsDir \o Slash \o name)

\* C3: after a successful run the index is an array with one entry for
\* every directory entry whose name ends in .json (letter case apart), none
\* for any other directory entry, its length is the number of such entries,
\* and the summary prints that length.
C3_OneEntryPerJsonFile ==
  Succeeded =>
    /\ recipesJson.kind = "json"
    /\ IsArray(recipesJson.value)
    /\ LET entries == recipesJson.value.v
       IN  /\ Len(entries) = Cardinality({i \in 1..Len(dir) : NamedJson(dir[i])})
           /\ \A i \in 1..Len(dir) :
                Cardinality({k \in 1..Len(entries) :
                               entries[k].manifest = ManifestUrl(dir[i])})
                  = IF NamedJson(dir[i]) THEN 1 ELSE 0
           /\ stdout # NoLine => stdout = Len(entries)

\* a directory with a .JSON manifest and a file that is not a manifest
C3_Witness ==
  /\ pc = "exited" /\ exitCode = 0
  /\ \E i, j \in 1..Len(dir) :
       dir[i] = <<"n">> \o UpperJson /\ dir[j] = <<"r", ".", "m", "d">>
  /\ stdout = 2

\* C9: every run that writes recipes.json on the same directory listing,
\* manifest contents and pages base writes the same content, whatever
\* recipes.json held before the run.
C9_Idempotent ==
  /\ \A i, j \in 1..Len(written) : written[i] = written[j]
  /\ Succeeded => recipesJson = Stringify(out)

\* two runs wrote an index of two entries
C9_Witness ==
  /\ Len(written) = 2
  /\ pc = "exited" /\ exitCode = 0 /\ run = 2
  /\ Len(out) = 2

\* position of name in the directory listing
ListingIndex(name) == CHOOSE i \in 1..Len(dir) : dir[i] = name

MatchesRecipe(name) == RecipeDigits(name) # <<>>

\* C4: the files are in ascending order of the integer in the names that
\* match recipe-<digits>.json, whatever the digits (leading zeros, values
\* above the maximum safe integer); every other file comes after all of
\* them, in directory-listing order.
C4_NaturalOrder ==
  pc = "loop" =>
    \A i, j \in 1..Len(files) :
      i < j =>
        /\ MatchesRecipe(files[j]) => MatchesRecipe(files[i])
        /\ (MatchesRecipe(files[i]) /\ MatchesRecipe(files[j])) =>
             ~BigLess(DecimalBig(RecipeDigits(files[j])),
                      DecimalBig(RecipeDigits(files[i])))
        /\ (~MatchesRecipe(files[i]) /\ ~MatchesRecipe(files[j])) =>
             ListingIndex(files[i]) < ListingIndex(files[j])

\* C4 holds of the names whose integer is below the maximum safe integer
C4_BelowSentinel ==
  (pc = "loop"
   /\ \A i \in 1..Len(files) :
        MatchesRecipe(files[i]) =>
          BigLess(DecimalBig(RecipeDigits(files[i])), MAX_SAFE_INTEGER))
    => C4_NaturalOrder

====
